---- MODULE Spec2Model ----
(***************************************************************************)
(* Model of the EnBW charge-station integration:                           *)
(*   - ChargeStation.update, the rate-limited REST poller that creates     *)
(*     its sensor / binary-sensor entities on the first payload and fans   *)
(*     every payload out to them (charge_station.py);                      *)
(*   - get_charge_station / get_charge_stations, the lookup and the area   *)
(*     search of the config flow (config_flow.py).                         *)
(***************************************************************************)
EXTENDS Integers, Sequences, FiniteSets, TLC

\* Poller: the clock, the fields of one ChargeStation, and a record of
\* what its callers observed (last call, the GETs issued, whether a call
\* has returned True before).
\* Finder: the last call of the config-flow helper, the response it got
\* and what it returned.
\* Callers: for each thread running ChargeStation.update, where it is in
\* the call and what it read at the interval check; the GETs issued.
VARIABLES now, updated_at, sensors, binary_sensors, last, getTimes, succeeded,
          fcall, fresp, fresult,
          cpc, cseen, gets,
          hassData, stationObj, spc, slookup,
          flowStep, flow_stations, station_number, submissions, flast

\* Setup: hass.data[DOMAIN] (entry id -> the ChargeStation stored under
\* it), the ChargeStation built for each entry, where each
\* async_setup_entry is, and what the platform's lookup found.
\* Flow: the step of one config flow, its stations and station_number
\* fields, the submissions made, and the outcome of the last one.
vars == <<now, updated_at, sensors, binary_sensors, last, getTimes, succeeded,
          fcall, fresp, fresult,
          cpc, cseen, gets,
          hassData, stationObj, spc, slookup,
          flowStep, flow_stations, station_number, submissions, flast>>

pollerVars == <<now, updated_at, sensors, binary_sensors, last, getTimes, succeeded>>
finderVars == <<fcall, fresp, fresult>>
callerVars == <<cpc, cseen, gets>>
setupVars == <<hassData, stationObj, spc, slookup>>
flowVars == <<flowStep, flow_stations, station_number, submissions, flast>>

(***************************************************************************)
(* Bounds of the model.                                                    *)
(***************************************************************************)
StartTime == 1000
Horizon == 125
MaxResp == 17
MaxCallers == 2
MaxEntries == 3
MaxSubmissions == 3

MaxTime == StartTime + Horizon

(***************************************************************************)
(* Program constants.                                                      *)
(***************************************************************************)
Interval == 60
MaxStations == 15

(***************************************************************************)
(* Python values: None / a value is <<>> / <<v>>; an empty attribute dict  *)
(* is <<>> and a filled one is <<record>>.                                 *)
(***************************************************************************)
None == <<>>
Some(v) == <<v>>

Max(S) == CHOOSE x \in S : \A y \in S : y <= x
Range(s) == {s[i] : i \in 1..Len(s)}

(***************************************************************************)
(* HTTP responses of the station-detail endpoint.                          *)
(***************************************************************************)
StatusCodes == {200, 304, 404, 500}
TickSteps == {59, 60}
Latencies == {0, 1}

Type2Connector == [plugTypeName |-> "Type2", cableAttached |-> FALSE, maxPowerInKw |-> 22]
CCSConnector == [plugTypeName |-> "CCS", cableAttached |-> TRUE, maxPowerInKw |-> 150]
ConnectorLists == {<<>>, <<Type2Connector, CCSConnector>>}
EvseIdLists == {<<>>, <<"E1">>, <<"E2">>, <<"E1", "E2">>}
Statuses == {"AVAILABLE", "OCCUPIED", "OUT_OF_SERVICE"}
TopLevelKeys == {"numberOfChargePoints", "availableChargePoints",
                 "unknownStateChargePoints", "maxPowerInKw", "plugTypeNames",
                 "shortAddress", "chargePoints"}

PlugTypeNamesOf(conns) == [i \in 1..Len(conns) |-> conns[i].plugTypeName]

\* A decoded station payload: the first charge point has status st, the
\* others are AVAILABLE; every point carries the connectors conns; the
\* payload announces Len(ids) + extra charge points and lacks the keys in
\* missing.
Payload(ids, st, conns, extra, missing) ==
  LET pts == [i \in 1..Len(ids) |->
                [evseId |-> ids[i],
                 status |-> IF i = 1 THEN st ELSE "AVAILABLE",
                 connectors |-> conns]]
  IN [missing |-> missing,
      numberOfChargePoints |-> Len(ids) + extra,
      availableChargePoints |->
         Cardinality({i \in 1..Len(ids) : pts[i].status = "AVAILABLE"}),
      unknownStateChargePoints |-> 0,
      maxPowerInKw |-> Max({0} \cup {conns[i].maxPowerInKw : i \in 1..Len(conns)}),
      plugTypeNames |-> PlugTypeNamesOf(conns),
      shortAddress |-> "Hauptstr. 1",
      chargePoints |-> pts]

WellFormedPayloads ==
  {Payload(<<>>, "AVAILABLE", <<>>, 0, {})}
  \cup {Payload(ids, st, conns, 0, {}) :
          ids \in EvseIdLists \ {<<>>}, st \in Statuses, conns \in ConnectorLists}

\* Payloads whose announced count disagrees with the chargePoints array.
MiscountedPayloads ==
  {Payload(<<"E1", "E2">>, "OCCUPIED", <<Type2Connector, CCSConnector>>, e, {}) :
          e \in {-1, 1}}

\* Payloads that lack one expected top-level key.
IncompletePayloads ==
  {Payload(<<"E1", "E2">>, "OCCUPIED", <<Type2Connector, CCSConnector>>, 0, {k}) :
          k \in TopLevelKeys}

Payloads == WellFormedPayloads \cup MiscountedPayloads \cup IncompletePayloads

\* Bodies sent with an error status: a station payload, and an error
\* document that has none of the station keys.
ErrorStatusPayloads ==
  {Payload(<<"E1", "E2">>, "AVAILABLE", <<Type2Connector, CCSConnector>>, 0, {}),
   Payload(<<>>, "AVAILABLE", <<>>, 0, TopLevelKeys)}

NoPayload == Payload(<<>>, "AVAILABLE", <<>>, 0, TopLevelKeys)

\* body: "neterr" (requests.get raised), "undecodable" (.json() raised),
\* "json" (decoded to the payload in json).
Responses ==
  {[status |-> 0, body |-> "neterr", json |-> NoPayload]}
  \cup {[status |-> s, body |-> "undecodable", json |-> NoPayload] : s \in {200, 500}}
  \cup {[status |-> 200, body |-> "json", json |-> p] : p \in Payloads}
  \cup {[status |-> s, body |-> "json", json |-> p] :
          s \in StatusCodes \ {200}, p \in ErrorStatusPayloads}

Has(json, key) == key \notin json.missing

\* A payload is malformed when it lacks a key the entities read.
Malformed(json) == json.missing # {}

(***************************************************************************)
(* Entities.                                                               *)
(***************************************************************************)
DatetimeFromTimestamp(t) == [tz |-> "utc", epoch |-> t]

\* ChargeStationSensorEntity.__init__ for the three counters
NewSensor(kind) == [kind |-> kind, native_value |-> None, attributes |-> None]

\* ChargeStationStateBinarySensor.__init__
NewStateBinarySensor ==
  [kind |-> "state", is_on |-> FALSE, attributes |-> None, point_id |-> "", index |-> 0]

\* ChargePointBinarySensor.__init__
NewChargePointBinarySensor(point_id, index) ==
  [kind |-> "point", is_on |-> FALSE, attributes |-> None,
   point_id |-> point_id, index |-> index]

\* The response key a counter sensor reads.
SensorKey(kind) ==
  CASE kind = "total" -> "numberOfChargePoints"
    [] kind = "available" -> "availableChargePoints"
    [] kind = "unknown" -> "unknownStateChargePoints"

SensorField(kind, json) ==
  CASE kind = "total" -> json.numberOfChargePoints
    [] kind = "available" -> json.availableChargePoints
    [] kind = "unknown" -> json.unknownStateChargePoints

\* ChargePointCountSensor / ChargePointsAvailableSensor /
\* ChargePointsUnknownSensor .update_from_response
sensor_update_from_response(s, json) ==
  IF ~Has(json, SensorKey(s.kind))
    THEN [obs |-> s, raised |-> TRUE]
    ELSE [obs |-> [s EXCEPT !.native_value = Some(SensorField(s.kind, json))],
          raised |-> FALSE]

RECURSIVE Flatten(_)
Flatten(ss) == IF ss = <<>> THEN <<>> ELSE Head(ss) \o Flatten(Tail(ss))

\* all connectors of all charge points, in payload order
AllConnectors(json) ==
  Flatten([i \in 1..Len(json.chargePoints) |-> json.chargePoints[i].connectors])

\* any(connector["cableAttached"] for connector in connectors)
AnyCableAttached(typeName, connectors) ==
  \E i \in 1..Len(connectors) : connectors[i].cableAttached

\* max(connector["maxPowerInKw"] for connector in connectors)
MaxPower(typeName, connectors) ==
  Max({connectors[i].maxPowerInKw : i \in 1..Len(connectors)})

\* mutation of StationAvailable: the comparison admits zero
StationAvailableOrZero(available) == available >= 0

\* response["availableChargePoints"] > 0
StationAvailable(available) == available > 0

\* ChargeStationStateBinarySensor.update_from_response
state_update_from_response(b, json, at) ==
  IF ~Has(json, "availableChargePoints")
    THEN [obs |-> b, raised |-> TRUE]
    ELSE
      LET b1 == [b EXCEPT !.is_on = StationAvailable(json.availableChargePoints)]
          connectors == AllConnectors(json)
          names == Range(json.plugTypeNames)
      IN IF \/ ~Has(json, "plugTypeNames")
            \/ ~Has(json, "chargePoints")
            \/ (names # {} /\ connectors = <<>>)
            \/ ~Has(json, "maxPowerInKw")
            \/ ~Has(json, "shortAddress")
            \/ ~Has(json, "numberOfChargePoints")
           THEN [obs |-> b1, raised |-> TRUE]
           ELSE [obs |-> [b1 EXCEPT !.attributes = Some(
                   [cableAttached |-> [t \in names |-> AnyCableAttached(t, connectors)],
                    plugTypeName |-> json.plugTypeNames,
                    maxPowerInKw |-> json.maxPowerInKw,
                    maxPowerInKwPerPlugType |-> [t \in names |-> MaxPower(t, connectors)],
                    address |-> json.shortAddress,
                    availableChargePoints |-> json.availableChargePoints,
                    totalChargePoints |-> json.numberOfChargePoints,
                    updatedAt |-> DatetimeFromTimestamp(at)])],
                 raised |-> FALSE]

IconColor(status) ==
  IF status = "OCCUPIED" THEN "gold"
  ELSE IF status = "AVAILABLE" THEN "green" ELSE "red"

\* mutation of MatchingPoints: the evseId filter is dropped
MatchingPointsUnfiltered(json, point_id) == json.chargePoints

\* [x for x in response["chargePoints"] if x["evseId"] == self.point_id]
MatchingPoints(json, point_id) ==
  SelectSeq(json.chargePoints, LAMBDA x : x.evseId = point_id)

\* ChargePointBinarySensor.update_from_response
point_update_from_response(b, json, at) ==
  IF ~Has(json, "chargePoints")
    THEN [obs |-> b, raised |-> TRUE]
    ELSE
      LET matches == MatchingPoints(json, b.point_id)
      IN IF Len(matches) = 0
           THEN [obs |-> b, raised |-> FALSE]
           ELSE
             LET state == matches[1]
                 b1 == [b EXCEPT !.is_on = (state.status # "AVAILABLE")]
             IN IF ~Has(json, "shortAddress")
                  THEN [obs |-> b1, raised |-> TRUE]
                  ELSE [obs |-> [b1 EXCEPT !.attributes = Some(
                          [cableAttached |->
                             [i \in 1..Len(state.connectors) |-> state.connectors[i].cableAttached],
                           plugTypeName |-> PlugTypeNamesOf(state.connectors),
                           maxPowerInKw |->
                             [i \in 1..Len(state.connectors) |-> state.connectors[i].maxPowerInKw],
                           address |-> json.shortAddress,
                           evseId |-> state.evseId,
                           iconColor |-> IconColor(state.status),
                           updatedAt |-> DatetimeFromTimestamp(at)])],
                        raised |-> FALSE]

binary_update_from_response(b, json, at) ==
  IF b.kind = "state" THEN state_update_from_response(b, json, at)
  ELSE point_update_from_response(b, json, at)

\* for sensor in self.sensors: sensor.update_from_response(response)
RECURSIVE UpdateSensors(_, _, _)
UpdateSensors(list, i, json) ==
  IF i > Len(list) THEN [list |-> list, raised |-> FALSE]
  ELSE LET r == sensor_update_from_response(list[i], json)
           l1 == [list EXCEPT ![i] = r.obs]
       IN IF r.raised THEN [list |-> l1, raised |-> TRUE]
          ELSE UpdateSensors(l1, i + 1, json)

\* for binary_sensor in self.binary_sensors: binary_sensor.update_from_response(response)
RECURSIVE UpdateBinarySensors(_, _, _, _)
UpdateBinarySensors(list, i, json, at) ==
  IF i > Len(list) THEN [list |-> list, raised |-> FALSE]
  ELSE LET r == binary_update_from_response(list[i], json, at)
           l1 == [list EXCEPT ![i] = r.obs]
       IN IF r.raised THEN [list |-> l1, raised |-> TRUE]
          ELSE UpdateBinarySensors(l1, i + 1, json, at)

\* ChargeStation.create_entities: the four station entities are appended
\* first; the loop over range(numberOfChargePoints) then appends one
\* point entity per index until a lookup raises.
create_entities(ss, bs, json) ==
  LET ss1 == ss \o <<NewSensor("total"), NewSensor("available"), NewSensor("unknown")>>
      bs1 == bs \o <<NewStateBinarySensor>>
  IN IF ~Has(json, "numberOfChargePoints")
       THEN [sensors |-> ss1, binary_sensors |-> bs1, raised |-> TRUE]
     ELSE IF json.numberOfChargePoints > 0 /\ ~Has(json, "chargePoints")
       THEN [sensors |-> ss1, binary_sensors |-> bs1, raised |-> TRUE]
     ELSE
       LET n == json.numberOfChargePoints
           k == IF n <= Len(json.chargePoints) THEN n ELSE Len(json.chargePoints)
       IN [sensors |-> ss1,
           binary_sensors |-> bs1 \o
              [i \in 1..k |-> NewChargePointBinarySensor(json.chargePoints[i].evseId, i)],
           raised |-> n > Len(json.chargePoints)]

\* mutation of WithinInterval: the interval is not subtracted
WithinIntervalDropped(ua, t) == ua > t

\* mutation of WithinInterval: the interval is mistyped as 6 seconds
WithinIntervalMistyped(ua, t) == ua > t - 6

\* if self.updated_at > time() - 60: return
WithinInterval(ua, t) == ua > t - Interval

\* mutation of NoEntities: the emptiness guard is forgotten
NoEntitiesUnguarded(ss, bs) == TRUE

\* if len(self.sensors) + len(self.binary_sensors) == 0
NoEntities(ss, bs) == Len(ss) + Len(bs) = 0

\* The try block of ChargeStation.update, from the GET to the last
\* update_from_response: the entity lists it leaves and whether it raised.
TryBody(ss, bs, resp, at) ==
  IF resp.body # "json"
    THEN [sensors |-> ss, binary_sensors |-> bs, raised |-> TRUE]
    ELSE
      LET c == IF NoEntities(ss, bs) THEN create_entities(ss, bs, resp.json)
               ELSE [sensors |-> ss, binary_sensors |-> bs, raised |-> FALSE]
      IN IF c.raised THEN c
         ELSE LET us == UpdateSensors(c.sensors, 1, resp.json)
              IN IF us.raised
                   THEN [sensors |-> us.list, binary_sensors |-> c.binary_sensors,
                         raised |-> TRUE]
                   ELSE LET ub == UpdateBinarySensors(c.binary_sensors, 1, resp.json, at)
                        IN [sensors |-> us.list, binary_sensors |-> ub.list,
                            raised |-> ub.raised]

(***************************************************************************)
(* Config-flow helper: lookup by station number and area search.           *)
(***************************************************************************)
StationKeys == {"stationId", "shortAddress", "plugTypeNames", "maxPowerInKw",
                "numberOfChargePoints", "lat", "lon"}

\* One element of a decoded JSON document: a dict (kind "dict") lacking the
\* keys in missing, or anything else (kind "other").  stationId may be null.
StationJson(id, lat, missing) ==
  [kind |-> "dict", missing |-> missing, stationId |-> id, lat |-> lat, lon |-> 0,
   shortAddress |-> "Hauptstr. 1"]

NonDictJson == [kind |-> "other", missing |-> StationKeys, stationId |-> None,
                lat |-> 0, lon |-> 0, shortAddress |-> ""]

Variants == {"near", "nondict", "nokey", "nolat", "nullid"}

\* the i-th element of an area response, ordinary or of variant v
Element(i, v) ==
  CASE v = "plain" -> StationJson(Some(i), 10 + ((i * 7) % 5), {})
    [] v = "near" -> StationJson(Some(i), 1, {})
    [] v = "nondict" -> NonDictJson
    [] v = "nokey" -> StationJson(Some(i), 3, {"stationId"})
    [] v = "nolat" -> StationJson(Some(i), 0, {"lat"})
    [] v = "nullid" -> StationJson(None, 2, {})

\* an array of n elements in which positions p1 and p2 (0: none) hold the
\* variants v1 and v2
AreaArray(n, p1, v1, p2, v2) ==
  [i \in 1..n |-> IF i = p1 THEN Element(i, v1)
                  ELSE IF i = p2 THEN Element(i, v2)
                  ELSE Element(i, "plain")]

\* body: "neterr" (requests.get raised), "undecodable" (.json() raised),
\* "array" (a JSON array, items), "object" (a JSON object, items[1])
FinderResponse(status, body, items) == [status |-> status, body |-> body, items |-> items]

NoFinderResponse == FinderResponse(0, "none", <<>>)

FailedResponses ==
  {FinderResponse(0, "neterr", <<>>)}
  \cup {FinderResponse(s, "undecodable", <<>>) : s \in {200, 500}}

\* hass.config.latitude / longitude
HomeLocation == [latitude |-> 0, longitude |-> 0]

Abs(x) == IF x < 0 THEN -x ELSE x

\* homeassistant.util.location.distance, on an integer grid
Distance(lat1, lon1, lat2, lon2) == Abs(lat1 - lat2) + Abs(lon1 - lon2)

\* ChargeStationModel.__init__: raises for a non-dict and for a missing key
ChargeStationModel(json) ==
  IF json.kind # "dict" \/ json.missing # {}
    THEN [raised |-> TRUE, model |-> None]
    ELSE [raised |-> FALSE,
          model |-> Some([station_number |-> json.stationId,
                          address |-> json.shortAddress,
                          station_location |-> [latitude |-> json.lat, longitude |-> json.lon],
                          distance_to_home |->
                            Distance(HomeLocation.latitude, HomeLocation.longitude,
                                     json.lat, json.lon)])]

\* EnbwChargeStationsConfigFlow.get_charge_station: None or the model
get_charge_station(resp) ==
  IF resp.body = "neterr" THEN None
  ELSE IF resp.status >= 400 THEN None
  ELSE IF resp.body = "undecodable" THEN None
  ELSE IF resp.body = "array" THEN None
  ELSE ChargeStationModel(resp.items[1]).model

\* stations.sort(key=lambda x: x.distance_to_home): a stable sort
RECURSIVE InsertByDistance(_, _)
InsertByDistance(x, s) ==
  IF s = <<>> THEN <<x>>
  ELSE IF x.distance_to_home < Head(s).distance_to_home THEN <<x>> \o s
  ELSE <<Head(s)>> \o InsertByDistance(x, Tail(s))

\* mutation of SortByDistance: the list is left in response order
SortByDistanceOmitted(s) == s

RECURSIVE SortByDistance(_)
SortByDistance(s) ==
  IF s = <<>> THEN <<>>
  ELSE InsertByDistance(s[Len(s)], SortByDistance(SubSeq(s, 1, Len(s) - 1)))

\* stations[:15]
Truncate(s) == IF Len(s) <= MaxStations THEN s ELSE SubSeq(s, 1, MaxStations)

\* [x for x in response if isinstance(x, dict)]
DictsOf(items) == SelectSeq(items, LAMBDA x : x.kind = "dict")

\* EnbwChargeStationsConfigFlow.get_charge_stations: the list returned
get_charge_stations(resp) ==
  IF resp.body = "neterr" THEN <<>>
  ELSE IF resp.status >= 400 THEN <<>>
  ELSE IF resp.body = "undecodable" THEN <<>>
  ELSE IF resp.body = "object" THEN <<>>
  ELSE
    LET dicts == DictsOf(resp.items)
        parsed == [i \in 1..Len(dicts) |-> ChargeStationModel(dicts[i])]
    IN IF \E i \in 1..Len(parsed) : parsed[i].raised
         THEN <<>>
         ELSE LET stations == [i \in 1..Len(parsed) |-> parsed[i].model[1]]
                  numbered == SelectSeq(stations, LAMBDA x : x.station_number # None)
              IN Truncate(SortByDistance(numbered))

(***************************************************************************)
(* Initial state: a freshly constructed ChargeStation.                     *)
(***************************************************************************)
NoResponse == [status |-> 0, body |-> "none", json |-> NoPayload]

\* the threads that may run update on the one ChargeStation
Callers == 1..MaxCallers

\* the config entries of the domain, by entry id
Entries == 1..MaxEntries

\* hass.data[DOMAIN] as a dict: entry id -> the entry whose ChargeStation
\* is stored under it; empty before the first setup
NoDomainData == [e \in {} |-> 0]

\* the flow has handled no submission yet
NoSubmission == [step |-> "none", number |-> 0, found |-> FALSE, outcome |-> "none"]

Init ==
  /\ now = StartTime
  /\ updated_at = 0
  /\ sensors = <<>>
  /\ binary_sensors = <<>>
  /\ last = [ret |-> "init", issued |-> FALSE, first |-> FALSE, resp |-> NoResponse]
  /\ getTimes = <<>>
  /\ succeeded = FALSE
  /\ fcall = "init"
  /\ fresp = NoFinderResponse
  /\ fresult = <<>>
  /\ cpc = [c \in Callers |-> "idle"]
  /\ cseen = [c \in Callers |-> 0]
  /\ gets = <<>>
  /\ hassData = NoDomainData
  /\ stationObj = [e \in Entries |-> "none"]
  /\ spc = [e \in Entries |-> "start"]
  /\ slookup = [e \in Entries |-> "none"]
  /\ flowStep = "user"
  /\ flow_stations = <<>>
  /\ station_number = 0
  /\ submissions = 0
  /\ flast = NoSubmission

\* the wall clock advances between calls
Tick ==
  /\ \E d \in TickSteps :
       /\ now + d <= MaxTime
       /\ now' = now + d
  /\ UNCHANGED <<updated_at, sensors, binary_sensors, last, getTimes, succeeded>>
  /\ UNCHANGED <<finderVars, callerVars, setupVars, flowVars>>

\* the two most recent GETs: when the call was entered and the attempt
\* timestamp it recorded
LastTwo(s) == IF Len(s) <= 2 THEN s ELSE SubSeq(s, Len(s) - 1, Len(s))

\* ChargeStation.update, one whole call.  d is the time that passes between
\* the two reads of time(); resp is what the endpoint answers if asked.
update(resp, d) ==
  /\ now + d <= MaxTime
  /\ IF WithinInterval(updated_at, now)
       THEN /\ last' = [ret |-> "None", issued |-> FALSE, first |-> FALSE,
                        resp |-> NoResponse]
            /\ UNCHANGED <<now, updated_at, sensors, binary_sensors, getTimes, succeeded>>
       ELSE LET at == now + d
                r == TryBody(sensors, binary_sensors, resp, at)
            IN /\ now' = at
               /\ updated_at' = at
               /\ getTimes' = LastTwo(getTimes \o <<[entered |-> now, at |-> at]>>)
               /\ sensors' = r.sensors
               /\ binary_sensors' = r.binary_sensors
               /\ last' = [ret |-> IF r.raised THEN "False" ELSE "True",
                           issued |-> TRUE,
                           first |-> ~r.raised /\ ~succeeded,
                           resp |-> resp]
               /\ succeeded' = (succeeded \/ ~r.raised)
  /\ UNCHANGED <<finderVars, callerVars, setupVars, flowVars>>

Update == \E resp \in Responses, d \in Latencies : update(resp, d)

Next == Tick \/ Update

\* one call of get_charge_station with the answer of the detail endpoint;
\* the helper keeps nothing between calls, so each call starts afresh
Lookup ==
  /\ fcall = "init"
  /\ \E resp \in FailedResponses
                 \cup {FinderResponse(st, "object", <<Element(i, v)>>) :
                         st \in StatusCodes, i \in 1..3,
                         v \in {"plain", "nokey", "nolat", "nullid"}}
                 \cup {FinderResponse(200, "array", <<Element(1, "plain")>>)} :
       /\ fcall' = "lookup"
       /\ fresp' = resp
       /\ fresult' = get_charge_station(resp)
  /\ UNCHANGED <<pollerVars, callerVars, setupVars, flowVars>>

\* one call of get_charge_stations with resp, the answer of the area endpoint
get_charge_stations_call(resp) ==
  /\ fcall = "init"
  /\ fcall' = "search"
  /\ fresp' = resp
  /\ fresult' = get_charge_stations(resp)
  /\ UNCHANGED <<pollerVars, callerVars, setupVars, flowVars>>

\* the answers tried: failures, a JSON object, error statuses, and arrays of
\* up to MaxResp elements of which none, one or two are not ordinary
Search ==
  \/ \E resp \in FailedResponses
                 \cup {FinderResponse(st, "object", <<Element(1, "plain")>>) :
                         st \in StatusCodes}
                 \cup {FinderResponse(st, "array", AreaArray(3, 2, "near", 0, "plain")) :
                         st \in StatusCodes \ {200}} :
       get_charge_stations_call(resp)
  \/ \E n \in 0..MaxResp :
       get_charge_stations_call(FinderResponse(200, "array", AreaArray(n, 0, "plain", 0, "plain")))
  \/ \E n \in 1..MaxResp : \E p1 \in 1..n : \E v1 \in Variants :
       get_charge_stations_call(FinderResponse(200, "array", AreaArray(n, p1, v1, 0, "plain")))
  \/ \E n \in 2..MaxResp : \E p1 \in 1..(n - 1) : \E p2 \in (p1 + 1)..n :
       \E v1 \in Variants, v2 \in Variants :
         get_charge_stations_call(FinderResponse(200, "array", AreaArray(n, p1, v1, p2, v2)))


(***************************************************************************)
(* ChargeStation.update run by several threads on one instance.  A call is *)
(* two steps: the interval check of lines 50-51, and, for a call that      *)
(* passed it, the rest of the call from the timestamp of line 52 on.       *)
(***************************************************************************)
\* what the endpoint answers in the runs with several callers
CallerResponses ==
  {[status |-> 0, body |-> "neterr", json |-> NoPayload],
   [status |-> 200, body |-> "json",
    json |-> Payload(<<"E1">>, "OCCUPIED", <<Type2Connector, CCSConnector>>, 0, {})],
   [status |-> 200, body |-> "json",
    json |-> Payload(<<"E1", "E2">>, "AVAILABLE", <<>>, 0, {})]}

\* lines 50-51: if self.updated_at > time() - 60: return
update_check(c) ==
  /\ cpc[c] = "idle"
  /\ IF WithinInterval(updated_at, now)
       THEN /\ last' = [ret |-> "None", issued |-> FALSE, first |-> FALSE,
                        resp |-> NoResponse]
            /\ UNCHANGED <<cpc, cseen>>
       ELSE /\ cpc' = [cpc EXCEPT ![c] = "passed"]
            /\ cseen' = [cseen EXCEPT ![c] = updated_at]
            /\ UNCHANGED last
  /\ UNCHANGED <<now, updated_at, sensors, binary_sensors, getTimes, succeeded, gets>>
  /\ UNCHANGED <<finderVars, setupVars, flowVars>>

\* lines 52-74: the timestamp, the GET and the fan-out to the entities
update_get(c, resp) ==
  /\ cpc[c] = "passed"
  /\ LET r == TryBody(sensors, binary_sensors, resp, now)
     IN /\ updated_at' = now
        /\ sensors' = r.sensors
        /\ binary_sensors' = r.binary_sensors
        /\ last' = [ret |-> IF r.raised THEN "False" ELSE "True",
                    issued |-> TRUE,
                    first |-> ~r.raised /\ ~succeeded,
                    resp |-> resp]
        /\ succeeded' = (succeeded \/ ~r.raised)
  /\ gets' = LastTwo(gets \o <<[caller |-> c, seen |-> cseen[c], at |-> now]>>)
  /\ cpc' = [cpc EXCEPT ![c] = "idle"]
  /\ UNCHANGED <<now, getTimes, cseen>>
  /\ UNCHANGED <<finderVars, setupVars, flowVars>>

CallerCheck == \E c \in Callers : update_check(c)

CallerGet == \E c \in Callers, resp \in CallerResponses : update_get(c, resp)

CallerNext == Tick \/ CallerCheck \/ CallerGet

CallerSpec == Init /\ [][CallerNext]_vars


(***************************************************************************)
(* async_setup_entry of the integration and of its binary_sensor platform, *)
(* for several config entries.  A setup runs up to its next await in one   *)
(* step; the setups of different entries interleave at the awaits.         *)
(***************************************************************************)
\* __init__.py lines 27-34, up to the await of the executor job:
\* hass.data[DOMAIN] = {}, then the entry's ChargeStation is stored
async_setup_entry(e) ==
  /\ spc[e] = "start"
  /\ hassData' = [x \in {e} |-> e]
  /\ stationObj' = [stationObj EXCEPT ![e] = "created"]
  /\ spc' = [spc EXCEPT ![e] = "updating"]
  /\ UNCHANGED slookup
  /\ UNCHANGED <<pollerVars, finderVars, callerVars, flowVars>>

\* the executor job of line 34 ends: update ran on the entry's
\* ChargeStation and returned ret; line 35 awaits the platform setups
executor_job_done(e, ret) ==
  /\ spc[e] = "updating"
  /\ stationObj' = [stationObj EXCEPT ![e] = ret]
  /\ spc' = [spc EXCEPT ![e] = "forwarding"]
  /\ UNCHANGED <<hassData, slookup>>
  /\ UNCHANGED <<pollerVars, finderVars, callerVars, flowVars>>

\* binary_sensor.async_setup_entry: station = hass.data[DOMAIN][entry_id]
binary_sensor_async_setup_entry(e) ==
  /\ spc[e] = "forwarding"
  /\ IF e \in DOMAIN hassData
       THEN /\ slookup' = [slookup EXCEPT ![e] =
                             IF hassData[e] = e THEN "found" ELSE "other"]
            /\ spc' = [spc EXCEPT ![e] = "done"]
       ELSE /\ slookup' = [slookup EXCEPT ![e] = "KeyError"]
            /\ spc' = [spc EXCEPT ![e] = "failed"]
  /\ UNCHANGED <<hassData, stationObj>>
  /\ UNCHANGED <<pollerVars, finderVars, callerVars, flowVars>>

SetupBegin == \E e \in Entries : async_setup_entry(e)

SetupUpdated == \E e \in Entries, ret \in {"True", "False"} : executor_job_done(e, ret)

SetupPlatform == \E e \in Entries : binary_sensor_async_setup_entry(e)

SetupNext == SetupBegin \/ SetupUpdated \/ SetupPlatform

SetupSpec == Init /\ [][SetupNext]_vars


(***************************************************************************)
(* The config flow: one EnbwChargeStationsConfigFlow object handling the   *)
(* submissions of the user step and of the search_station step.            *)
(***************************************************************************)
\* station numbers the user may type, and those that already have a config
\* entry (for which _async_abort_entries_match raises)
StationNumbers == 1..4
ConfiguredStations == {1, 2}

\* answers of the detail endpoint to the lookup of station number n
LookupResponses(n) ==
  {FinderResponse(200, "object", <<Element(n, "plain")>>),
   FinderResponse(404, "object", <<Element(n, "nokey")>>),
   FinderResponse(0, "neterr", <<>>)}

\* answers of the area endpoint to the search around the given location
SearchResponses ==
  {FinderResponse(200, "array", AreaArray(k, 0, "plain", 0, "plain")) : k \in 0..4}
  \cup {FinderResponse(200, "array", AreaArray(4, 3, v, 0, "plain")) :
          v \in {"near", "nondict", "nokey"}}
  \cup {FinderResponse(0, "neterr", <<>>)}

\* self.stations.append(station) when the lookup found one (lines 263-265)
StationsAfterLookup(found, list) ==
  IF found # None THEN Append(list, found[1]) ELSE list

\* async_step_user with a submission: n is the station number typed,
\* lresp and sresp what the two endpoints answer if asked
async_step_user(n, lresp, sresp) ==
  /\ flowStep = "user"
  /\ submissions < MaxSubmissions
  /\ submissions' = submissions + 1
  /\ station_number' = n
  /\ LET station == get_charge_station(lresp)
         found == StationsAfterLookup(station, flow_stations)
     IN IF Len(found) = 0
          THEN /\ flow_stations' = get_charge_stations(sresp)
               /\ flowStep' = "search_station"
               /\ flast' = [step |-> "user", number |-> n, found |-> station # None,
                            outcome |-> "form_search_station"]
          ELSE /\ flow_stations' = found
               /\ IF n \in ConfiguredStations
                    THEN /\ flowStep' = "user"
                         /\ flast' = [step |-> "user", number |-> n,
                                      found |-> station # None,
                                      outcome |-> "form_user"]
                    ELSE /\ flowStep' = "created"
                         /\ flast' = [step |-> "user", number |-> n,
                                      found |-> station # None,
                                      outcome |-> "create_entry"]
  /\ UNCHANGED <<pollerVars, finderVars, callerVars, setupVars>>

\* async_step_search_station with a submission: n is the option selected
\* among self.stations
async_step_search_station(n) ==
  /\ flowStep = "search_station"
  /\ submissions < MaxSubmissions
  /\ \E i \in 1..Len(flow_stations) : flow_stations[i].station_number = Some(n)
  /\ submissions' = submissions + 1
  /\ station_number' = n
  /\ IF n \in ConfiguredStations
       THEN /\ flowStep' = "aborted"
            /\ flast' = [step |-> "search_station", number |-> n, found |-> FALSE,
                         outcome |-> "abort"]
       ELSE /\ flowStep' = "created"
            /\ flast' = [step |-> "search_station", number |-> n, found |-> FALSE,
                         outcome |-> "create_entry"]
  /\ UNCHANGED flow_stations
  /\ UNCHANGED <<pollerVars, finderVars, callerVars, setupVars>>

SubmitUser ==
  \E n \in StationNumbers : \E lresp \in LookupResponses(n), sresp \in SearchResponses :
     async_step_user(n, lresp, sresp)

SubmitSearchStation == \E n \in StationNumbers : async_step_search_station(n)

FlowNext == SubmitUser \/ SubmitSearchStation

FlowSpec == Init /\ [][FlowNext]_vars

FinderNext == Lookup \/ Search

FinderSpec == Init /\ [][FinderNext]_vars

Spec == Init /\ [][Next]_vars

TypeOK ==
  /\ now \in StartTime..MaxTime
  /\ updated_at \in {0} \cup (StartTime..MaxTime)
  /\ last.ret \in {"init", "None", "True", "False"}

(***************************************************************************)
(* Properties.                                                             *)
(***************************************************************************)
Min(a, b) == IF a <= b THEN a ELSE b

\* evseIds of the charge points a payload reports
EvseIds(json) ==
  IF Has(json, "chargePoints")
    THEN {json.chargePoints[i].evseId : i \in 1..Len(json.chargePoints)}
    ELSE {}

\* C1: for one caller with a non-decreasing clock, a call issues a GET only
\* if at least the refresh interval has passed since the previous call that
\* issued one (whether that one succeeded or failed): of two consecutive
\* GETs, the later call was entered no sooner than Interval seconds after
\* the attempt timestamp of the earlier.
C1_GetOnlyAfterInterval ==
  Len(getTimes) = 2 => getTimes[2].entered - getTimes[1].at >= Interval

\* a second GET issued exactly one interval after the first, the endpoint
\* failing
C1_Witness ==
  /\ Len(getTimes) = 2
  /\ getTimes[2].entered - getTimes[1].at = Interval
  /\ last.ret = "False"

\* C2: a refresh that reports failure updates no observer: every sensor and
\* binary sensor that existed before the call has the state and attributes
\* it had before it.
C2_FailureUpdatesNothing ==
  [][(last'.ret = "False") =>
       /\ Len(sensors') >= Len(sensors)
       /\ Len(binary_sensors') >= Len(binary_sensors)
       /\ \A i \in 1..Len(sensors) : sensors'[i] = sensors[i]
       /\ \A i \in 1..Len(binary_sensors) : binary_sensors'[i] = binary_sensors[i]]_vars

\* the payload announces as many charge points as it lists
ConsistentCount(json) ==
  /\ Has(json, "numberOfChargePoints")
  /\ Has(json, "chargePoints")
  /\ json.numberOfChargePoints = Len(json.chargePoints)

\* C3: after the first refresh that returns success, whatever failed or
\* skipped refreshes came before, the observer set is the one built from
\* that payload: the three counters, the state flag, and one per-point
\* observer for each charge point of the payload, bound to its evseId.
C3_FullSetOnFirstSuccess ==
  (last.ret = "True" /\ last.first /\ ConsistentCount(last.resp.json)) =>
     LET pts == last.resp.json.chargePoints
     IN /\ Len(sensors) = 3
        /\ {sensors[i].kind : i \in 1..3} = {"total", "available", "unknown"}
        /\ Len(binary_sensors) = 1 + Len(pts)
        /\ binary_sensors[1].kind = "state"
        /\ \A i \in 1..Len(pts) :
             /\ binary_sensors[i + 1].kind = "point"
             /\ binary_sensors[i + 1].point_id = pts[i].evseId

\* C4: once the observer set is non-empty, no later refresh adds or removes
\* an observer or changes the evseId a per-point observer is bound to.
C4_CreatedOnce ==
  [][(Len(sensors) + Len(binary_sensors) > 0) =>
       /\ Len(sensors') = Len(sensors)
       /\ Len(binary_sensors') = Len(binary_sensors)
       /\ \A i \in 1..Len(sensors) : sensors'[i].kind = sensors[i].kind
       /\ \A i \in 1..Len(binary_sensors) :
            /\ binary_sensors'[i].kind = binary_sensors[i].kind
            /\ binary_sensors'[i].point_id = binary_sensors[i].point_id
            /\ binary_sensors'[i].index = binary_sensors[i].index]_vars

\* a second GET succeeded with a well-formed payload whose number of charge
\* points differs from the number of per-point observers
C4_Witness ==
  /\ Len(getTimes) = 2
  /\ last.ret = "True"
  /\ last.resp.json \in WellFormedPayloads
  /\ Len(binary_sensors) >= 1
  /\ Len(binary_sensors) - 1 # Len(last.resp.json.chargePoints)

\* C5: every call of update returns a boolean to its caller (true after a
\* GET whose payload reached every observer, false on failure), the call
\* that falls inside the refresh interval included.
C5_ReturnsBoolean ==
  /\ last.ret \in {"init", "True", "False"}
  /\ last.ret = "True" => last.issued

\* a response that is not a decodable, complete 2xx answer
BadResponse(resp) ==
  \/ resp.body \in {"neterr", "undecodable"}
  \/ resp.status \notin 200..299
  \/ (resp.body = "json" /\ Malformed(resp.json))

BadFinderResponse(resp) ==
  \/ resp.body \in {"neterr", "undecodable"}
  \/ resp.status \notin 200..299

\* C6: a non-2xx or malformed response, a network failure or a timeout never
\* counts as success: update returns false, get_charge_station returns
\* None and get_charge_stations returns the empty list.
C6_BadResponseNeverSucceeds ==
  /\ (last.issued /\ BadResponse(last.resp)) => last.ret = "False"
  /\ (fcall = "lookup" /\ BadFinderResponse(fresp)) => fresult = None
  /\ (fcall = "search" /\ BadFinderResponse(fresp)) => fresult = <<>>

\* indexes of the connectors of plug type T
OfType(T, connectors) == {i \in 1..Len(connectors) : connectors[i].plugTypeName = T}

\* C7: after a successful refresh the per-plug-type aggregates of the state
\* observer are taken over the connectors of that type only: cableAttached[T]
\* iff some connector of type T has a cable attached, and
\* maxPowerInKwPerPlugType[T] the maximum power of the connectors of type T.
C7_AggregatesPerPlugType ==
  last.ret = "True" =>
     LET a == binary_sensors[1].attributes[1]
         connectors == AllConnectors(last.resp.json)
     IN \A T \in DOMAIN a.cableAttached :
          OfType(T, connectors) # {} =>
            /\ a.cableAttached[T] =
                 (\E i \in OfType(T, connectors) : connectors[i].cableAttached)
            /\ a.maxPowerInKwPerPlugType[T] =
                 Max({connectors[i].maxPowerInKw : i \in OfType(T, connectors)})

\* an element the search can turn into a candidate with a station number
WellFormedElement(e) == e.kind = "dict" /\ e.missing = {} /\ e.stationId # None

\* the candidates of an area response
Candidates(resp) ==
  IF resp.body = "array" /\ resp.status < 400
    THEN {ChargeStationModel(resp.items[i]).model[1] :
            i \in {j \in 1..Len(resp.items) : WellFormedElement(resp.items[j])}}
    ELSE {}

\* no dict of the response array lacks a key
NoMalformedDict(resp) ==
  \A i \in 1..Len(resp.items) : resp.items[i].kind = "dict" => resp.items[i].missing = {}

\* C8: the area search returns at most 15 candidates in non-decreasing
\* distance_to_home, and they are the nearest ones: every station returned
\* is a candidate, no candidate left out is strictly nearer than one
\* returned, and when nothing in the array is malformed none is left out
\* unless 15 are returned.
C8_NearestFifteen ==
  fcall = "search" =>
    /\ Len(fresult) <= MaxStations
    /\ \A i \in 1..(Len(fresult) - 1) :
         fresult[i].distance_to_home <= fresult[i + 1].distance_to_home
    /\ Range(fresult) \subseteq Candidates(fresp)
    /\ \A c \in Candidates(fresp) \ Range(fresult) :
         \A i \in 1..Len(fresult) :
           ~(c.distance_to_home < fresult[i].distance_to_home)
    /\ NoMalformedDict(fresp) =>
         Len(fresult) = Min(MaxStations, Cardinality(Candidates(fresp)))

\* more than 15 candidates, 15 returned, the nearest of them one that the
\* response listed after position 15
C8_Witness ==
  /\ fcall = "search"
  /\ Cardinality(Candidates(fresp)) > MaxStations
  /\ Len(fresult) = MaxStations
  /\ fresult[1].station_number[1] > MaxStations
  /\ fresult[1].distance_to_home < fresult[MaxStations].distance_to_home

\* C9: the area search keeps every well-formed station object of the array
\* and skips the elements that are not dicts or are malformed: as many
\* stations are returned as the array has well-formed elements, up to 15.
C9_BadElementsSkipped ==
  (fcall = "search" /\ fresp.body = "array" /\ fresp.status = 200) =>
     Len(fresult) = Min(MaxStations, Cardinality(Candidates(fresp)))

\* C10: a per-point observer whose evseId is absent from the chargePoints of
\* a new payload keeps its state and all its attributes, and the refresh
\* still succeeds and updates the others: for a well-formed payload the
\* call returns true, the counters and the state flag show the payload, and
\* every per-point observer whose point is present carries this refresh's
\* timestamp.
C10_AbsentPointKept ==
  [][/\ \A i \in 1..Len(binary_sensors) :
          (/\ binary_sensors[i].kind = "point"
           /\ binary_sensors[i].point_id \notin EvseIds(last'.resp.json))
          => (i <= Len(binary_sensors') /\ binary_sensors'[i] = binary_sensors[i])
     /\ (last'.issued /\ last'.resp.json \in WellFormedPayloads) =>
          /\ last'.ret = "True"
          /\ \A k \in 1..Len(sensors') :
               sensors'[k].native_value =
                  Some(SensorField(sensors'[k].kind, last'.resp.json))
          /\ binary_sensors'[1].is_on = (last'.resp.json.availableChargePoints > 0)
          /\ \A j \in 1..Len(binary_sensors') :
               (/\ binary_sensors'[j].kind = "point"
                /\ binary_sensors'[j].point_id \in EvseIds(last'.resp.json))
               => /\ binary_sensors'[j].attributes # None
                  /\ binary_sensors'[j].attributes[1].updatedAt =
                       DatetimeFromTimestamp(updated_at')]_vars

\* after a successful refresh, an occupied point observer whose point the
\* payload no longer lists still shows the earlier refresh, next to one
\* that was updated by this refresh
C10_Witness ==
  /\ last.ret = "True"
  /\ \E i, j \in 1..Len(binary_sensors) :
       /\ binary_sensors[i].kind = "point"
       /\ binary_sensors[i].point_id \notin EvseIds(last.resp.json)
       /\ binary_sensors[i].is_on
       /\ binary_sensors[i].attributes # None
       /\ binary_sensors[i].attributes[1].updatedAt.epoch < updated_at
       /\ binary_sensors[j].kind = "point"
       /\ binary_sensors[j].point_id \in EvseIds(last.resp.json)
       /\ binary_sensors[j].attributes # None
       /\ binary_sensors[j].attributes[1].updatedAt.epoch = updated_at

\* C11: after every refresh that returns success, whatever refreshes came
\* before, the station-availability observer is on exactly when the
\* availableChargePoints of that refresh's payload is greater than 0.
C11_OnIffAvailable ==
  last.ret = "True" =>
     /\ Len(binary_sensors) >= 1
     /\ binary_sensors[1].kind = "state"
     /\ binary_sensors[1].is_on = (last.resp.json.availableChargePoints > 0)

\* a second successful refresh reports no available charge point and the
\* observer is off, its attributes carrying that refresh's count
C11_Witness ==
  /\ last.ret = "True"
  /\ Len(getTimes) = 2
  /\ succeeded /\ ~last.first
  /\ last.resp.json.availableChargePoints = 0
  /\ Len(last.resp.json.chargePoints) > 0
  /\ ~binary_sensors[1].is_on
  /\ binary_sensors[1].attributes[1].availableChargePoints = 0

\* C12: no observer raises from update_from_response: once the entities
\* exist, a refresh whose body decodes returns true, and an observer whose
\* sub-field is missing is skipped whole, so a binary sensor whose state
\* changed also carries the attributes of this refresh.
C12_ObserversNeverRaise ==
  [][(/\ getTimes' # getTimes
      /\ Len(sensors) + Len(binary_sensors) > 0
      /\ last'.resp.body = "json") =>
       /\ last'.ret = "True"
       /\ \A i \in 1..Len(binary_sensors) :
            binary_sensors'[i].is_on # binary_sensors[i].is_on =>
              /\ binary_sensors'[i].attributes # None
              /\ binary_sensors'[i].attributes[1].updatedAt =
                   DatetimeFromTimestamp(updated_at')]_vars

\* C13: update has no lock.  With several callers on one instance, two GETs
\* less than one refresh interval apart are issued only by a race on the
\* attempt timestamp: the caller of the later GET passed its interval check
\* before the earlier GET's caller recorded the timestamp (it read an older
\* one), and such a pair of GETs is reachable.
C13_TwoGetsOnlyByRace ==
  (Len(gets) = 2 /\ gets[2].at - gets[1].at < Interval) =>
     /\ gets[2].caller # gets[1].caller
     /\ gets[2].seen < gets[1].at

\* two GETs by different callers within one refresh interval, the first of
\* them later than the start of the run
C13_Witness ==
  /\ Len(gets) = 2
  /\ gets[2].caller # gets[1].caller
  /\ gets[2].at - gets[1].at < Interval
  /\ gets[1].at > StartTime

\* C14: for any order and interleaving of the setups of distinct config
\* entries, setting up one entry leaves the registry entries of the others
\* in place: the lookup hass.data[DOMAIN][entry_id] of the binary-sensor
\* platform setup of an entry finds the ChargeStation created for it.
C14_PollerPresentAtLookup ==
  \A e \in Entries : slookup[e] \in {"none", "found"}

\* C15: within one flow, over any sequence of submissions to the user
\* step, resubmissions after a caught abort included, the step creates a
\* config entry directly only if the lookup of the station number of that
\* same submission found a station.
C15_DirectEntryOnlyIfFound ==
  (flast.step = "user" /\ flast.outcome = "create_entry") => flast.found
====
